---- MODULE Spec2Model ----
(***************************************************************************)
(* Ad-evolution control loop of AdMorph.AI (src/agentic_evolution.py) and  *)
(* the part of the Meta client it drives (src/meta_api_integration.py).    *)
(*                                                                         *)
(* Units.  ctr and engagement_rate are held in thousandths (0.05 = 50),    *)
(* cost_per_acquisition in whole currency units, trend_alignment in        *)
(* hundredths (0.8 = 80).  A performance score is the exact rational       *)
(* num/den.  None (no campaign id) is 0.                                   *)
(***************************************************************************)
EXTENDS Integers, Sequences, FiniteSets, TLC

VARIABLES
    pa_metrics,        \* PerformanceAnalysisAgent harness: the history given to execute
    pa_result,         \* ... and the analysis it returned (called = FALSE before the call)
    al_history,        \* alert-scan harness: performance_history of one registry entry
    al_alerts,         \* ... and the alerts the scan body produced for it
    mu_input,          \* AdMutationAgent harness: the arguments given to execute
    mu_result,         \* ... the children it returned and the parent object after the call
    tr_trends,         \* TrendAnalysisAgent harness: the current_trends given to execute
    tr_result,         \* ... and the relevant_trends it returned
    scan,              \* the _check_for_alerts call in progress, entry by entry
    variants,          \* the AdVariantMorph objects that exist, by variant_id
    active_variants,   \* EvolutionOrchestrator.active_variants: id -> performance_history
    nextVariant,       \* next fresh variant id (uuid4)
    platformSeq,       \* next fresh id handed out by the ad platform
    cycle,             \* the running start_evolution_cycle call, if any
    evolution_results, \* the evolution_results dict of the last/current cycle
    lastStep,          \* what the last loop iteration of a cycle did
    lastRollback,      \* the last emergency_rollback call and its platform calls
    monitoring_active, \* EvolutionMonitor.monitoring_active
    mon,               \* the start_monitoring coroutines, in call order
    stop_requested,    \* stop_monitoring was called after the last start_monitoring call
    lastTick           \* what the last pass through the monitor loop body did

vars == <<pa_metrics, pa_result, al_history, al_alerts, mu_input, mu_result, tr_trends, tr_result, scan,
          variants, active_variants,
          nextVariant, platformSeq, cycle, evolution_results, lastStep,
          lastRollback, monitoring_active, mon, stop_requested, lastTick>>

paVars == <<pa_metrics, pa_result>>
alVars == <<al_history, al_alerts>>
muVars == <<mu_input, mu_result>>
trVars == <<tr_trends, tr_result>>
scVars == <<scan>>
orchVars == <<variants, active_variants, nextVariant, platformSeq, cycle,
              evolution_results, lastStep, lastRollback>>
monVars == <<monitoring_active, mon, stop_requested, lastTick>>

(***************************************************************************)
(* Bounds                                                                  *)
(***************************************************************************)
MaxMetrics == 4        \* longest history given to the analysis harness
MaxAlertHist == 7      \* longest history given to the alert-scan harness
MaxChildren == 4       \* mutation children created in one run
MaxProcessed == 3      \* variants handed to start_evolution_cycle in one run, over all calls
MaxLoops == 1          \* start_monitoring calls in one run
MaxRecs == 2           \* longest recommendation list given to the mutation harness
MaxRounds == 4         \* single-variant cycles in one run of the lineage specification
MaxTrends == 3         \* longest trend list given to the trend harness
MaxScans == 2          \* alert scans, and single-variant cycles, in one run of the scan specification
MaxStarts == 2         \* start_monitoring calls in one run of the loops specification

(***************************************************************************)
(* Python helpers                                                          *)
(***************************************************************************)
Min(a, b) == IF a < b THEN a ELSE b
Max(a, b) == IF a > b THEN a ELSE b

\* s[-n:] : the last n elements, or all of s when it is shorter
LastN(s, n) == SubSeq(s, Max(1, Len(s) - n + 1), Len(s))

\* s[-hi:-lo] for hi > lo > 0 : Python clamps both ends to the sequence
NegSlice(s, hi, lo) == SubSeq(s, Max(1, Len(s) - hi + 1), Len(s) - lo)

RECURSIVE SumCtr(_)
SumCtr(s) == IF s = <<>> THEN 0 ELSE Head(s).ctr + SumCtr(Tail(s))

SeqToSet(s) == {s[i] : i \in 1..Len(s)}

\* all sequences over S of length 0..n
RECURSIVE SeqsUpTo(_, _)
SeqsUpTo(S, n) ==
    IF n = 0 THEN {<<>>}
    ELSE LET shorter == SeqsUpTo(S, n - 1)
         IN  shorter \cup {Append(s, x) : s \in {t \in shorter : Len(t) = n - 1}, x \in S}

(***************************************************************************)
(* EngagementMetrics (impressions, timestamp and variant_id are not read   *)
(* by any decision)                                                        *)
(***************************************************************************)
Sample(c, k, v, e, a) ==
    [ctr |-> c, clicks |-> k, conversions |-> v, engagement_rate |-> e,
     cost_per_acquisition |-> a]

(***************************************************************************)
(* PerformanceAnalysisAgent                                                *)
(***************************************************************************)
\* a rational num/den, den > 0, compared with n/d
RatLt(q, n, d) == q.num * d < n * q.den

\* _calculate_performance_score giving an empty history a neutral 0.5
_calculate_performance_score_neutral(metrics) ==
    IF metrics = <<>> THEN [num |-> 1, den |-> 2]
    ELSE LET latest == metrics[Len(metrics)]
             mc == Max(latest.clicks, 1)
             ctr_score == Min(20 * latest.ctr, 1000) * mc
             conversion_score == Min(10000 * latest.conversions, 1000 * mc)
             engagement_score == Min(25 * latest.engagement_rate, 2000) * mc
         IN  [num |-> 4 * ctr_score + 4 * conversion_score + engagement_score,
              den |-> 10000 * mc]

\* _calculate_performance_score without the cap on the ctr component
_calculate_performance_score_unclipped(metrics) ==
    IF metrics = <<>> THEN [num |-> 0, den |-> 1]
    ELSE LET latest == metrics[Len(metrics)]
             mc == Max(latest.clicks, 1)
             ctr_score == 20 * latest.ctr * mc
             conversion_score == Min(10000 * latest.conversions, 1000 * mc)
             engagement_score == Min(25 * latest.engagement_rate, 2000) * mc
         IN  [num |-> 4 * ctr_score + 4 * conversion_score + engagement_score,
              den |-> 10000 * mc]

\* _calculate_performance_score: 0.4*min(ctr/0.05,1) + 0.4*min(cr/0.1,1)
\* + 0.2*min(er/0.08,1) on the latest sample, with cr = conversions/max(clicks,1).
\* In units of 1/(10000*max(clicks,1)).
_calculate_performance_score(metrics) ==
    IF metrics = <<>> THEN [num |-> 0, den |-> 1]
    ELSE LET latest == metrics[Len(metrics)]
             mc == Max(latest.clicks, 1)
             ctr_score == Min(20 * latest.ctr, 1000) * mc
             conversion_score == Min(10000 * latest.conversions, 1000 * mc)
             engagement_score == Min(25 * latest.engagement_rate, 2000) * mc
         IN  [num |-> 4 * ctr_score + 4 * conversion_score + engagement_score,
              den |-> 10000 * mc]

\* _needs_mutation with the data guard off by one (two samples suffice)
_needs_mutation_short(metrics) ==
    IF Len(metrics) < 2 THEN FALSE
    ELSE LET performance_score == _calculate_performance_score(metrics)
             recent_ctrs == [i \in 1..Len(LastN(metrics, 3)) |-> LastN(metrics, 3)[i].ctr]
             is_declining == recent_ctrs[Len(recent_ctrs)] < recent_ctrs[1]
         IN  RatLt(performance_score, 6, 10) \/ is_declining

_needs_mutation(metrics) ==
    IF Len(metrics) < 3 THEN FALSE
    ELSE LET performance_score == _calculate_performance_score(metrics)
             recent_ctrs == [i \in 1..Len(LastN(metrics, 3)) |-> LastN(metrics, 3)[i].ctr]
             is_declining == recent_ctrs[Len(recent_ctrs)] < recent_ctrs[1]
         IN  RatLt(performance_score, 6, 10) \/ is_declining

\* conversions / max(clicks, 1) in thousandths; the sample sets keep it exact
ConversionRate(m) == (1000 * m.conversions) \div Max(m.clicks, 1)

RECURSIVE SumConversionRate(_)
SumConversionRate(s) ==
    IF s = <<>> THEN 0 ELSE ConversionRate(Head(s)) + SumConversionRate(Tail(s))

\* _analyze_performance_patterns taking the trend over the last three samples
_analyze_performance_patterns_recent(metrics) ==
    IF metrics = <<>> THEN [error |-> "No metrics available"]
    ELSE [n |-> Len(metrics),
          sum_ctr |-> SumCtr(metrics),
          sum_conversion_rate |-> SumConversionRate(metrics),
          ctr_trend |-> IF metrics[Len(metrics)].ctr > LastN(metrics, 3)[1].ctr
                        THEN "improving" ELSE "declining"]

\* _analyze_performance_patterns; the means are kept as sums over n samples.
\* (No history of up to 4 of the enumerated samples has a mean on one of the
\* thresholds of _recommend_mutations, where the float sum would decide.)
_analyze_performance_patterns(metrics) ==
    IF metrics = <<>> THEN [error |-> "No metrics available"]
    ELSE [n |-> Len(metrics),
          sum_ctr |-> SumCtr(metrics),
          sum_conversion_rate |-> SumConversionRate(metrics),
          ctr_trend |-> IF metrics[Len(metrics)].ctr > metrics[1].ctr
                        THEN "improving" ELSE "declining"]

\* _identify_optimization_opportunities, on the latest sample
_identify_optimization_opportunities(metrics) ==
    IF metrics = <<>> THEN <<"Insufficient data for analysis">>
    ELSE LET latest_metrics == metrics[Len(metrics)]
             opportunities ==
                 (IF latest_metrics.ctr < 20
                  THEN <<"Low CTR - consider more compelling headlines">> ELSE <<>>)
                 \o (IF ConversionRate(latest_metrics) < 50
                     THEN <<"Low conversion rate - strengthen value proposition">>
                     ELSE <<>>)
                 \o (IF latest_metrics.cost_per_acquisition > 50
                     THEN <<"High CPA - optimize targeting or messaging">> ELSE <<>>)
                 \o (IF latest_metrics.engagement_rate < 30
                     THEN <<"Low engagement - make content more interactive">>
                     ELSE <<>>)
         IN  IF opportunities # <<>> THEN opportunities
             ELSE <<"Performance is within acceptable ranges">>

\* _recommend_mutations with the ctr threshold at 0.03
_recommend_mutations_lax(analysis) ==
    LET has == "n" \in DOMAIN analysis
        low_ctr == IF has THEN analysis.sum_ctr < 30 * analysis.n ELSE TRUE
        low_conv == IF has THEN analysis.sum_conversion_rate < 50 * analysis.n ELSE TRUE
        declining == IF has THEN analysis.ctr_trend = "declining" ELSE FALSE
    IN  (IF low_ctr THEN <<[type |-> "headline", strategy |-> "increase_urgency"]>> ELSE <<>>)
        \o (IF low_conv THEN <<[type |-> "cta", strategy |-> "strengthen_action"]>> ELSE <<>>)
        \o (IF declining THEN <<[type |-> "body", strategy |-> "refresh_messaging"]>> ELSE <<>>)

\* _recommend_mutations without the rule for a low conversion rate
_recommend_mutations_no_cta(analysis) ==
    LET has == "n" \in DOMAIN analysis
        low_ctr == IF has THEN analysis.sum_ctr < 20 * analysis.n ELSE TRUE
        declining == IF has THEN analysis.ctr_trend = "declining" ELSE FALSE
    IN  (IF low_ctr THEN <<[type |-> "headline", strategy |-> "increase_urgency"]>> ELSE <<>>)
        \o (IF declining THEN <<[type |-> "body", strategy |-> "refresh_messaging"]>> ELSE <<>>)

\* _recommend_mutations: analysis.get(key, 0) is 0 for the error analysis
_recommend_mutations(analysis) ==
    LET has == "n" \in DOMAIN analysis
        low_ctr == IF has THEN analysis.sum_ctr < 20 * analysis.n ELSE TRUE
        low_conv == IF has THEN analysis.sum_conversion_rate < 50 * analysis.n ELSE TRUE
        declining == IF has THEN analysis.ctr_trend = "declining" ELSE FALSE
    IN  (IF low_ctr THEN <<[type |-> "headline", strategy |-> "increase_urgency"]>> ELSE <<>>)
        \o (IF low_conv THEN <<[type |-> "cta", strategy |-> "strengthen_action"]>> ELSE <<>>)
        \o (IF declining THEN <<[type |-> "body", strategy |-> "refresh_messaging"]>> ELSE <<>>)

\* PerformanceAnalysisAgent.execute
PerformanceExecute(metrics) ==
    [performance_analysis |-> _analyze_performance_patterns(metrics),
     optimization_opportunities |-> _identify_optimization_opportunities(metrics),
     mutation_recommendations |-> _recommend_mutations(_analyze_performance_patterns(metrics)),
     performance_score |-> _calculate_performance_score(metrics),
     needs_mutation |-> _needs_mutation(metrics)]

(***************************************************************************)
(* Analysis harness: PerformanceAnalysisAgent.execute applied to every     *)
(* history of up to MaxMetrics samples                                     *)
(***************************************************************************)
HighSample(e) == Sample(60, 100, 12, e, 40)   \* ctr=0.06, clicks=100, conversions=12

PASamples ==
    {Sample(c, 100, v, e, 40) : c \in {10, 60}, v \in {2, 12}, e \in {20, 80}}
    \cup {Sample(35, 100, 12, 80, 40)}

\* the history with ctr 0.010, 0.009, 0.008
FallingHistory == [i \in 1..3 |-> Sample(11 - i, 100, 12, 80, 40)]

\* one-sample histories of a variant nobody clicked on yet, without and with
\* conversions attributed to it
NoClickHistories == {<<Sample(0, 0, v, 20, 40)>> : v \in {0, 3}}

NoAnalysis ==
    [called |-> FALSE, performance_analysis |-> <<>>,
     optimization_opportunities |-> <<>>, mutation_recommendations |-> <<>>,
     performance_score |-> [num |-> 0, den |-> 1], needs_mutation |-> FALSE]

PAInit ==
    /\ pa_metrics \in SeqsUpTo(PASamples, MaxMetrics) \cup {FallingHistory} \cup NoClickHistories
    /\ pa_result = NoAnalysis

Analyze ==
    /\ ~pa_result.called
    /\ pa_result' = [called |-> TRUE] @@ PerformanceExecute(pa_metrics)
    /\ UNCHANGED <<pa_metrics, alVars, muVars, trVars, scVars, orchVars, monVars>>

(***************************************************************************)
(* Alert-scan harness, orchestrator and monitor: initial values            *)
(***************************************************************************)
NoScan == [scanned |-> FALSE, alerts |-> <<>>]
ALIdle == al_history = <<>> /\ al_alerts = NoScan
PAIdle == pa_metrics = <<>> /\ pa_result = NoAnalysis

(***************************************************************************)
(* SyntheticDataGenerator and the metrics read back from the platform      *)
(***************************************************************************)
Days == 7              \* generate_performance_data(variant, days=7)

GoodSample == Sample(60, 100, 12, 80, 40)
BadSample == Sample(10, 100, 2, 20, 150)
SynthSamples == {GoodSample, BadSample}

\* generate_performance_data: `Days` random samples; the family enumerated
\* here has a base level and a level for the last three days
SyntheticSeries ==
    {[i \in 1..Days |-> IF i <= Days - 3 THEN a ELSE b] :
        a \in SynthSamples, b \in SynthSamples}

\* _get_real_performance_data builds the sample with engagement_rate = ctr
RealSamples == {Sample(60, 100, 12, 60, 40), Sample(10, 100, 2, 10, 150)}

(***************************************************************************)
(* AdVariantMorph                                                          *)
(***************************************************************************)
NoCampaign == 0        \* meta_campaign_id = None

\* emotional_impact is held exactly, as base * 1.1^boosts (base in thousandths)
Impact(base, boosts) == [base |-> base, boosts |-> boosts]

\* A variant as made by the ad generators and approved for launch; the four
\* arguments are the fields the control loop decides on.  variant_id is the
\* key under which the object is held.
Variant(mh, ta, pub, camp) ==
    [mutation_history |-> mh, trend_alignment |-> ta, is_published |-> pub,
     meta_campaign_id |-> camp,
     headline |-> "Original headline", body |-> "Original body", cta |-> "Original cta",
     image_url |-> "image.png", aesthetic_score |-> 70, ogilvy_score |-> 80,
     emotional_impact |-> Impact(700, 0), format_type |-> "social",
     demographic_segment |-> "segment", generation_strategy |-> "ogilvy_principles",
     performance_score |-> 75, swipe_status |-> "approved"]

\* the history entry written without the parent's id
MutationEntryOrphan(parent, type, strategy) ==
    [parent_id |-> 0, mutation_type |-> type, strategy |-> strategy]

MutationEntry(parent, type, strategy) ==
    [parent_id |-> parent, mutation_type |-> type, strategy |-> strategy]

\* Variants made outside the orchestrator and handed to start_evolution_cycle:
\* 1 is a root; 2 carries a lineage of two mutations whose ancestors (8, 9)
\* this orchestrator never saw.  A launched variant had its ad id (1 resp. 2)
\* stored and is_published set by publish_campaign; 2 is launched, 1 may be.
RootId == {1}
ExternalIds == {1, 2}
ExternalLineage(v) ==
    IF v = 1 THEN <<>>
    ELSE <<MutationEntry(8, "headline", "increase_urgency"),
           MutationEntry(9, "body", "refresh_messaging")>>

ExternalVariant(v, launched) ==
    Variant(ExternalLineage(v), IF v = 1 THEN 60 ELSE 75,
            launched, IF launched THEN v ELSE NoCampaign)

FirstChildId == 11
ChildIds == FirstChildId..(FirstChildId + MaxChildren - 1)
FirstPlatformId == 101

(***************************************************************************)
(* AdMutationAgent                                                         *)
(***************************************************************************)
\* What _call_openai returns: a string, or None when the API answers 200
\* with a null content.
Text(s) == [is_none |-> FALSE, content |-> s]
NoContent == [is_none |-> TRUE, content |-> ""]

\* The outcomes of the HTTP call: an answer with a text (bare, quoted or
\* padded), an answer without content, an error status, a timeout or other
\* exception, no API key.
ApiOutcomes ==
    {[kind |-> "ok", content |-> c] : c \in {"Act now", "\"Act now\"", "  Act now  "}}
    \cup {[kind |-> k, content |-> ""] : k \in {"null", "status", "timeout", "no_key"}}

GenerationSucceeded(outcome) == outcome.kind = "ok"

\* OpenAIAgent._call_openai: every failure is turned into an "Error: ..." text
_call_openai(outcome) ==
    CASE outcome.kind = "ok" -> Text(outcome.content)
      [] outcome.kind = "null" -> NoContent
      [] outcome.kind = "status" -> Text("Error: API returned 500")
      [] outcome.kind = "timeout" -> Text("Error: Unable to process request - timed out")
      [] outcome.kind = "no_key" -> Text("Error: OpenAI API key not configured")

\* new_content.strip().strip('"') on the texts above
Strip(s) ==
    CASE s = "\"Act now\"" -> "Act now"
      [] s = "  Act now  " -> "Act now"
      [] OTHER -> s

\* f"mutation_{strategy}"
MutationStrategyName(strategy) ==
    CASE strategy = "increase_urgency" -> "mutation_increase_urgency"
      [] strategy = "strengthen_action" -> "mutation_strengthen_action"
      [] strategy = "refresh_messaging" -> "mutation_refresh_messaging"

NoChild == [none |-> TRUE]

\* the constructor call with the parent's publication state carried over
MutatedVariantCopiedState(original_id, original, mutation_type, strategy, new_content) ==
    [headline |-> IF mutation_type = "headline" THEN new_content ELSE original.headline,
     body |-> IF mutation_type = "body" THEN new_content ELSE original.body,
     cta |-> IF mutation_type = "cta" THEN new_content ELSE original.cta,
     image_url |-> original.image_url,
     aesthetic_score |-> original.aesthetic_score,
     ogilvy_score |-> original.ogilvy_score,
     emotional_impact |-> Impact(original.emotional_impact.base,
                                 original.emotional_impact.boosts + 1),
     format_type |-> original.format_type,
     demographic_segment |-> original.demographic_segment,
     generation_strategy |-> MutationStrategyName(strategy),
     mutation_history |-> original.mutation_history
                             \o <<MutationEntry(original_id, mutation_type, strategy)>>,
     performance_score |-> 0,
     trend_alignment |-> 80,
     swipe_status |-> "pending",
     meta_campaign_id |-> original.meta_campaign_id,
     is_published |-> original.is_published]

\* the AdVariantMorph(...) constructor call of lines 456-477
MutatedVariant(original_id, original, mutation_type, strategy, new_content) ==
    [headline |-> IF mutation_type = "headline" THEN new_content ELSE original.headline,
     body |-> IF mutation_type = "body" THEN new_content ELSE original.body,
     cta |-> IF mutation_type = "cta" THEN new_content ELSE original.cta,
     image_url |-> original.image_url,
     aesthetic_score |-> original.aesthetic_score,
     ogilvy_score |-> original.ogilvy_score,
     emotional_impact |-> Impact(original.emotional_impact.base,
                                 original.emotional_impact.boosts + 1),
     format_type |-> original.format_type,
     demographic_segment |-> original.demographic_segment,
     generation_strategy |-> MutationStrategyName(strategy),
     mutation_history |-> original.mutation_history
                             \o <<MutationEntry(original_id, mutation_type, strategy)>>,
     performance_score |-> 0,
     trend_alignment |-> 80,
     swipe_status |-> "pending",
     meta_campaign_id |-> NoCampaign,
     is_published |-> FALSE]

\* _create_mutation appending the new entry to the parent's own list
\* (original.mutation_history.append) and sharing it with the child
_create_mutation_in_place(original_id, original, recommendation, outcome) ==
    LET new_content == _call_openai(outcome)
        made == MutatedVariant(original_id, original, recommendation.type,
                               recommendation.strategy, Strip(new_content.content))
    IN  [mutated_variant |-> IF new_content.is_none THEN NoChild ELSE made,
         original |-> IF new_content.is_none THEN original
                      ELSE [original EXCEPT !.mutation_history = made.mutation_history]]

\* _create_mutation for one recommendation and one outcome of the generation
\* call: the child (NoChild for None) and the parent object as the call leaves
\* it.  None.strip() raises inside the try block and is caught (481-483).
_create_mutation(original_id, original, recommendation, outcome) ==
    LET new_content == _call_openai(outcome)
    IN  [mutated_variant |->
             IF new_content.is_none THEN NoChild
             ELSE MutatedVariant(original_id, original, recommendation.type,
                                 recommendation.strategy, Strip(new_content.content)),
         original |-> original]

\* AdMutationAgent.execute: the loop over the recommendations, outcomes[i]
\* being the outcome of the generation call for the i-th; ids are fresh from
\* `first`.  Returns the children in order and the parent as the call leaves it.
RECURSIVE MutationExecute(_, _, _, _, _)
MutationExecute(original_id, original, mutation_recommendations, outcomes, first) ==
    IF mutation_recommendations = <<>>
    THEN [mutated_variants |-> <<>>, original |-> original]
    ELSE LET n == Len(mutation_recommendations)
             before == MutationExecute(original_id, original,
                                       SubSeq(mutation_recommendations, 1, n - 1),
                                       SubSeq(outcomes, 1, n - 1), first)
             made == _create_mutation(original_id, before.original,
                                      mutation_recommendations[n], outcomes[n])
         IN  [mutated_variants |->
                  IF made.mutated_variant = NoChild THEN before.mutated_variants
                  ELSE Append(before.mutated_variants,
                              [id |-> first + Len(before.mutated_variants),
                               variant |-> made.mutated_variant]),
              original |-> made.original]

(***************************************************************************)
(* Mutation harness: AdMutationAgent.execute applied to a parent, a list   *)
(* of up to MaxRecs recommendations and one outcome of the generation call *)
(* for each                                                                *)
(***************************************************************************)
Recommendations ==
    {[type |-> "headline", strategy |-> "increase_urgency"],
     [type |-> "cta", strategy |-> "strengthen_action"],
     [type |-> "body", strategy |-> "refresh_messaging"]}

NoMutation == [called |-> FALSE, mutated_variants |-> <<>>, original |-> NoChild]

\* emotional_impact of the parents: 0.7 as the demo variant has and 0.92 as
\* the generation service gives a regenerated ad
ImpactLevels == {700, 920}

NoInput ==
    [original_id |-> 0, original |-> NoChild, mutation_recommendations |-> <<>>,
     outcomes |-> <<>>]

MUIdle == mu_input = NoInput /\ mu_result = NoMutation

MUInit ==
    /\ \E original_id \in ExternalIds,
          emotional_impact \in ImpactLevels,
          mutation_recommendations \in SeqsUpTo(Recommendations, MaxRecs),
          outcomes \in SeqsUpTo(ApiOutcomes, MaxRecs) :
          /\ Len(outcomes) = Len(mutation_recommendations)
          /\ mu_input = [original_id |-> original_id,
                         original |-> [ExternalVariant(original_id, original_id = 2)
                                          EXCEPT !.emotional_impact =
                                                     Impact(emotional_impact, 0)],
                         mutation_recommendations |-> mutation_recommendations,
                         outcomes |-> outcomes]
    /\ mu_result = NoMutation

Mutate ==
    /\ ~mu_result.called
    /\ mu_result' = [called |-> TRUE]
                      @@ MutationExecute(mu_input.original_id, mu_input.original,
                                         mu_input.mutation_recommendations,
                                         mu_input.outcomes, FirstChildId)
    /\ UNCHANGED <<mu_input, trVars, scVars, paVars, alVars, orchVars, monVars>>

(***************************************************************************)
(* MetaMarketingAPIClient.publish_campaign                                 *)
(***************************************************************************)
\* _create_ad_from_variant with the published mark forgotten
_create_ad_from_variant_unmarked(vs, v, ad_id) ==
    [vs EXCEPT ![v].meta_campaign_id = ad_id]

\* _create_ad_from_variant on heap `vs`: stores the ad id, marks published
_create_ad_from_variant(vs, v, ad_id) ==
    [vs EXCEPT ![v].meta_campaign_id = ad_id, ![v].is_published = TRUE]

RECURSIVE CreateAds(_, _, _, _)
\* the loop over the batch, creating ads for its first n variants
CreateAds(vs, batch, n, first_ad) ==
    IF n = 0 THEN vs
    ELSE _create_ad_from_variant(CreateAds(vs, batch, n - 1, first_ad),
                                 batch[n], first_ad + n - 1)

\* publish_campaign(batch): failAt = 0 campaign creation fails; failAt = k in
\* 1..Len(batch): ad set or ad creation fails at the k-th variant, after the
\* ads of the k-1 before it were created; failAt = Len(batch)+1: no failure.
\* Every failure is caught and returned as success = False.
publish_campaign(vs, batch, failAt, seq) ==
    LET created == IF failAt = 0 THEN 0 ELSE failAt - 1
        ok == failAt = Len(batch) + 1
    IN  [variants |-> IF failAt = 0 THEN vs ELSE CreateAds(vs, batch, created, seq + 1),
         result |-> [success |-> ok, campaign_id |-> IF ok THEN seq ELSE NoCampaign],
         seq |-> IF failAt = 0 THEN seq ELSE seq + 1 + created]

(***************************************************************************)
(* EvolutionOrchestrator                                                   *)
(***************************************************************************)
\* the auto-publish filter with the depth cap one too high
HighConfidenceDeep(m) == m.trend_alignment > 70 /\ Len(m.mutation_history) <= 3

\* the filter of _auto_publish_mutations
HighConfidence(m) == m.trend_alignment > 70 /\ Len(m.mutation_history) <= 2

RECURSIVE MarkPublished(_, _, _)
MarkPublished(vs, batch, campaign_id) ==
    IF batch = <<>> THEN vs
    ELSE MarkPublished([vs EXCEPT ![Head(batch)].is_published = TRUE,
                                  ![Head(batch)].meta_campaign_id = campaign_id],
                       Tail(batch), campaign_id)

\* the list comprehension of _auto_publish_mutations
HighConfidenceBatch(vs, mutations) ==
    SelectSeq(mutations, LAMBDA c : HighConfidence(vs[c]))

\* _auto_publish_mutations on heap `vs` for the children `mutations` (ids)
_auto_publish_mutations(vs, mutations, failAt, seq) ==
    LET high_confidence_mutations == HighConfidenceBatch(vs, mutations)
    IN  IF high_confidence_mutations = <<>>
        THEN [variants |-> vs, seq |-> seq, batch |-> <<>>, publish |-> "none"]
        ELSE LET p == publish_campaign(vs, high_confidence_mutations, failAt, seq)
             IN  [variants |-> IF p.result.success
                               THEN MarkPublished(p.variants, high_confidence_mutations,
                                                  p.result.campaign_id)
                               ELSE p.variants,
                  seq |-> p.seq,
                  batch |-> high_confidence_mutations,
                  publish |-> IF p.result.success THEN "success" ELSE "failed"]

\* _get_real_performance_data: nothing without a campaign id; otherwise the
\* platform answers with an error (nothing) or with one sample
_get_real_performance_data(variant) ==
    IF variant.meta_campaign_id = NoCampaign THEN {<<>>}
    ELSE {<<>>} \cup {<<m>> : m \in RealSamples}

Tracked == DOMAIN active_variants

\* the data branch bootstrapping a tracked variant again
PerformanceDataRebootstrap(v) ==
    IF v \notin Tracked \/ variants[v].meta_campaign_id = NoCampaign THEN SyntheticSeries
    ELSE {active_variants[v] \o d : d \in _get_real_performance_data(variants[v])}

\* the performance data start_evolution_cycle can obtain for variant v
PerformanceData(v) ==
    IF v \notin Tracked THEN SyntheticSeries
    ELSE {active_variants[v] \o d : d \in _get_real_performance_data(variants[v])}

ChildrenCreated == nextVariant - FirstChildId

\* children a variant is certain to get when processed (its data is fixed)
CertainChildren(v) ==
    IF v \in Tracked /\ variants[v].meta_campaign_id = NoCampaign
       /\ _needs_mutation(active_variants[v])
    THEN Len(PerformanceExecute(active_variants[v]).mutation_recommendations)
    ELSE 0

RECURSIVE Reserved(_)
Reserved(queue) ==
    IF queue = <<>> THEN 0 ELSE CertainChildren(Head(queue)) + Reserved(Tail(queue))

NoRollback ==
    [variant_id |-> 0,
     result |-> [success |-> FALSE, error |-> "", rolled_back_to |-> 0, raised |-> FALSE],
     calls |-> <<>>]

NoStep ==
    [variant |-> 0, needs_mutation |-> FALSE, recommendations |-> 0,
     children |-> <<>>, batch |-> <<>>, publish |-> "none", failed |-> {}]

\* evolution_results as built at lines 501-508 (cycle_id and started_at are
\* not read by any decision); the two lists are never filled
NoResults ==
    [variants_processed |-> 0, mutations_created |-> 0,
     performance_improvements |-> <<>>, trend_alignments |-> <<>>]

\* The collaborator calls of one loop iteration whose failure is caught
\* before it reaches the for loop: the platform fetch (try/except 567-584),
\* the generation call (_call_openai 120-142, _create_mutation 451-483) and
\* the publish call (publish_campaign 70-113, _auto_publish_mutations 597-609)
HandledButGeneration == {"fetch", "publish"}

Handled == {"fetch", "generation", "publish"}

\* The outcomes of the n generation calls of one iteration: all answered
AnsweredRun(n) == [i \in 1..n |-> [kind |-> "ok", content |-> "Act now"]]

\* ... or the first answered without content and the others timed out
FailingRun(n) ==
    [i \in 1..n |-> IF i = 1 THEN [kind |-> "null", content |-> ""]
                              ELSE [kind |-> "timeout", content |-> ""]]

CycleIdle == cycle.pc = "idle"

\* non-empty lists of distinct existing variants, within the run's budget
InputLists ==
    {l \in SeqsUpTo(DOMAIN variants, MaxProcessed - cycle.handed) :
        Len(l) >= 1 /\ \A i, j \in 1..Len(l) : i # j => l[i] # l[j]}

\* start_evolution_cycle up to the for loop (lines 498-512)
StartCycle(list) ==
    /\ CycleIdle
    /\ Reserved(list) <= MaxChildren - ChildrenCreated
    /\ cycle' = [pc |-> "running", queue |-> list, handed |-> cycle.handed + Len(list),
                 given |-> Len(list), first_child |-> nextVariant, failures |-> 0,
                 raised |-> FALSE]
    /\ evolution_results' = NoResults
    /\ lastStep' = NoStep
    /\ lastRollback' = NoRollback
    /\ UNCHANGED <<variants, active_variants, nextVariant, platformSeq>>
    /\ UNCHANGED <<paVars, alVars, muVars, trVars, scVars, monVars>>

\* the number of generation calls an iteration makes for this history
GenerationCalls(performance_history) ==
    LET performance_analysis == PerformanceExecute(performance_history)
    IN  IF performance_analysis.needs_mutation
        THEN Len(performance_analysis.mutation_recommendations) ELSE 0

\* the store loop with the assignment dedented out of it: only the last
\* child of the list is stored
RegisterLastMutation(registry, ids) ==
    [c \in DOMAIN registry \cup (IF ids = <<>> THEN {} ELSE {ids[Len(ids)]}) |->
        IF c \in DOMAIN registry THEN registry[c] ELSE <<>>]

\* "Store mutations for testing" (lines 548-554): every returned child
\* becomes a registry entry of its own with an empty performance_history
RegisterMutations(registry, ids) ==
    [c \in DOMAIN registry \cup SeqToSet(ids) |->
        IF c \in SeqToSet(ids) THEN <<>> ELSE registry[c]]

\* the loop running over a list that the children are appended to
RestOfListWithChildren(queue, ids) == Tail(queue) \o ids

\* "for variant in variants" (line 514): the loop goes on with the rest of
\* the caller's list, whatever children `ids` the iteration has registered
RestOfList(queue, ids) == Tail(queue)

\* one iteration of the for loop (lines 514-557) for the variant at the head
\* of the list: obtain data, analyse, mutate, register, auto-publish.  The
\* loop has no handler of its own: a failure that is not caught at its call
\* site leaves start_evolution_cycle as an exception.
ProcessVariant(performance_history, outcomes, failAt) ==
    \E v \in {Head(cycle.queue)} :
    \E performance_analysis \in {PerformanceExecute(performance_history)} :
    \E run \in {IF performance_analysis.needs_mutation
                 THEN MutationExecute(v, variants[v],
                          performance_analysis.mutation_recommendations,
                          outcomes, nextVariant)
                 ELSE [mutated_variants |-> <<>>, original |-> variants[v]]} :
    \E mutated \in {run.mutated_variants} :
    \E ids \in {[i \in 1..Len(mutated) |-> mutated[i].id]} :
    \E heap \in {[c \in DOMAIN variants \cup SeqToSet(ids) |->
                    IF c \in SeqToSet(ids) THEN mutated[c - nextVariant + 1].variant
                    ELSE IF c = v THEN run.original ELSE variants[c]]} :
        /\ Len(mutated) <= MaxChildren - ChildrenCreated - Reserved(Tail(cycle.queue))
        /\ failAt <= Len(HighConfidenceBatch(heap, ids)) + 1
        /\ (HighConfidenceBatch(heap, ids) = <<>> => failAt = 0)
        /\ \E pub \in {_auto_publish_mutations(heap, ids, failAt, platformSeq)} :
           \E failed \in {(IF v \in Tracked /\ variants[v].meta_campaign_id # NoCampaign
                               /\ performance_history = active_variants[v]
                            THEN {"fetch"} ELSE {})
                          \cup (IF \E i \in 1..Len(outcomes) :
                                      ~GenerationSucceeded(outcomes[i])
                                THEN {"generation"} ELSE {})
                          \cup (IF pub.publish = "failed" THEN {"publish"} ELSE {})} :
            /\ lastStep' = [variant |-> v,
                            needs_mutation |-> performance_analysis.needs_mutation,
                            recommendations |-> Len(outcomes),
                            children |-> ids, batch |-> pub.batch,
                            publish |-> pub.publish, failed |-> failed]
            /\ IF failed \subseteq Handled
               THEN /\ variants' = pub.variants
                    /\ platformSeq' = pub.seq
                    /\ active_variants' =
                          RegisterMutations(
                              [c \in Tracked \cup {v} |->
                                  IF c = v THEN performance_history
                                  ELSE active_variants[c]], ids)
                    /\ nextVariant' = nextVariant + Len(mutated)
                    /\ evolution_results' =
                          [evolution_results EXCEPT
                              !.variants_processed = @ + 1,
                              !.mutations_created = @ + Len(mutated)]
                    /\ cycle' = [cycle EXCEPT !.queue = RestOfList(cycle.queue, ids),
                                              !.failures = @ + Cardinality(failed)]
               ELSE /\ cycle' = [cycle EXCEPT !.pc = "idle", !.raised = TRUE,
                                              !.failures = @ + Cardinality(failed)]
                    /\ UNCHANGED <<variants, platformSeq, active_variants,
                                   nextVariant, evolution_results>>
        /\ UNCHANGED <<lastRollback, paVars, alVars, muVars, trVars, scVars, monVars>>

CycleStep ==
    /\ cycle.pc = "running"
    /\ cycle.queue # <<>>
    /\ \E performance_history \in PerformanceData(Head(cycle.queue)),
          failAt \in 0..4 :
            ProcessVariant(performance_history,
                           AnsweredRun(GenerationCalls(performance_history)), failAt)

\* the same iteration when the content generator is failing
CycleStepFailing ==
    /\ cycle.pc = "running"
    /\ cycle.queue # <<>>
    /\ \E performance_history \in PerformanceData(Head(cycle.queue)),
          failAt \in 0..4 :
            /\ GenerationCalls(performance_history) >= 1
            /\ ProcessVariant(performance_history,
                              FailingRun(GenerationCalls(performance_history)), failAt)

\* return evolution_results (line 559)
CycleReturn ==
    /\ cycle.pc = "running"
    /\ cycle.queue = <<>>
    /\ cycle' = [cycle EXCEPT !.pc = "idle"]
    /\ UNCHANGED <<variants, active_variants, nextVariant, platformSeq,
                   evolution_results, lastStep, lastRollback>>
    /\ UNCHANGED <<paVars, alVars, muVars, trVars, scVars, monVars>>

Failure(msg) == [success |-> FALSE, error |-> msg, rolled_back_to |-> 0, raised |-> FALSE]

PauseCall(variant) ==
    IF variant.meta_campaign_id # NoCampaign
    THEN <<[op |-> "pause", campaign_id |-> variant.meta_campaign_id]>>
    ELSE <<>>

ResumeCall(variant) ==
    IF variant.meta_campaign_id # NoCampaign
    THEN <<[op |-> "resume", campaign_id |-> variant.meta_campaign_id]>>
    ELSE <<>>

\* emergency_rollback pausing the variant before it looks at the lineage
emergency_rollback_pause_first(variant_id) ==
    IF variant_id \notin Tracked
    THEN [result |-> Failure("Variant not found"), calls |-> <<>>]
    ELSE LET variant == variants[variant_id] IN
         IF variant.mutation_history = <<>>
         THEN [result |-> Failure("No previous version to rollback to"),
               calls |-> PauseCall(variant)]
         ELSE LET parent_id ==
                      variant.mutation_history[Len(variant.mutation_history)].parent_id
              IN  IF parent_id \in Tracked
                  THEN [result |-> [success |-> TRUE, error |-> "",
                                    rolled_back_to |-> parent_id, raised |-> FALSE],
                        calls |-> PauseCall(variant) \o ResumeCall(variants[parent_id])]
                  ELSE [result |-> Failure("Parent variant not found"),
                        calls |-> PauseCall(variant)]

\* emergency_rollback(variant_id): its result and the platform calls it makes
emergency_rollback(variant_id) ==
    IF variant_id \notin Tracked
    THEN [result |-> Failure("Variant not found"), calls |-> <<>>]
    ELSE LET variant == variants[variant_id] IN
         IF variant.mutation_history = <<>>
         THEN [result |-> Failure("No previous version to rollback to"), calls |-> <<>>]
         ELSE LET parent_id ==
                      variant.mutation_history[Len(variant.mutation_history)].parent_id
              IN  IF parent_id \in Tracked
                  THEN [result |-> [success |-> TRUE, error |-> "",
                                    rolled_back_to |-> parent_id, raised |-> FALSE],
                        calls |-> PauseCall(variant) \o ResumeCall(variants[parent_id])]
                  ELSE [result |-> Failure("Parent variant not found"), calls |-> <<>>]

\* a rollback that also marks the paused variant as no longer published
RollbackUnpublishing(variant_id) ==
    /\ CycleIdle
    /\ lastRollback' = [variant_id |-> variant_id] @@ emergency_rollback(variant_id)
    /\ variants' = IF emergency_rollback(variant_id).result.success
                   THEN [variants EXCEPT ![variant_id].is_published = FALSE,
                                         ![variant_id].meta_campaign_id = NoCampaign]
                   ELSE variants
    /\ UNCHANGED <<active_variants, nextVariant, platformSeq, cycle,
                   evolution_results, lastStep>>
    /\ UNCHANGED <<paVars, alVars, muVars, trVars, scVars, monVars>>

\* a direct call of emergency_rollback, for any id (9 is an id never tracked)
Rollback(variant_id) ==
    /\ CycleIdle
    /\ lastRollback' = [variant_id |-> variant_id] @@ emergency_rollback(variant_id)
    /\ UNCHANGED <<variants, active_variants, nextVariant, platformSeq, cycle,
                   evolution_results, lastStep>>
    /\ UNCHANGED <<paVars, alVars, muVars, trVars, scVars, monVars>>

OrchInit ==
    /\ \E launched \in BOOLEAN :
          variants = [v \in ExternalIds |-> ExternalVariant(v, IF v = 1 THEN launched ELSE TRUE)]
    /\ active_variants = <<>>
    /\ nextVariant = FirstChildId
    /\ platformSeq = FirstPlatformId
    /\ cycle = [pc |-> "idle", queue |-> <<>>, handed |-> 0, given |-> 0,
                first_child |-> FirstChildId, failures |-> 0, raised |-> FALSE]
    /\ evolution_results = NoResults
    /\ lastStep = NoStep
    /\ lastRollback = NoRollback

OrchNext ==
    \/ \E list \in InputLists : StartCycle(list)
    \/ CycleStep
    \/ CycleReturn
    \/ \E variant_id \in DOMAIN variants \cup {9} : Rollback(variant_id)

(***************************************************************************)
(* EvolutionMonitor: the alert scan                                        *)
(***************************************************************************)
\* the performance-drop test with the six-sample guard on the slice dropped
PerformanceDropUnguarded(performance_history) ==
    /\ Len(performance_history) >= 3
    /\ LET recent == LastN(performance_history, 3)
           previous == NegSlice(performance_history, 6, 3)
       IN  5 * SumCtr(recent) * Len(previous) < 4 * SumCtr(previous) * Len(recent)

\* lines 723-727: recent_avg < previous_avg * 0.8, the means as sum/len.
\* (None of the enumerated histories lies on the boundary 5*recent = 4*previous
\* with non-zero means, where the float product would decide.)
PerformanceDrop(performance_history) ==
    /\ Len(performance_history) >= 3
    /\ LET recent == LastN(performance_history, 3)
           previous == IF Len(performance_history) >= 6
                       THEN NegSlice(performance_history, 6, 3) ELSE recent
       IN  5 * SumCtr(recent) * Len(previous) < 4 * SumCtr(previous) * Len(recent)

Alert(type, variant_id, severity) ==
    [type |-> type, variant_id |-> variant_id, severity |-> severity]

\* the body of the for loop of _check_for_alerts for one registry entry
EntryAlerts(variant_id, performance_history) ==
    IF Len(performance_history) < 2 THEN <<>>
    ELSE (IF PerformanceDrop(performance_history)
          THEN <<Alert("performance_drop", variant_id, "high")>> ELSE <<>>)
         \o (IF performance_history[Len(performance_history)].cost_per_acquisition > 100
             THEN <<Alert("high_cost", variant_id, "medium")>> ELSE <<>>)

\* the for loop over the registry entries `ids`; the entries are visited by
\* ascending id (the alerts of one entry do not depend on the others)
RECURSIVE ScanEntries(_)
ScanEntries(ids) ==
    IF ids = {} THEN <<>>
    ELSE LET v == CHOOSE x \in ids : \A y \in ids : x <= y
         IN  EntryAlerts(v, active_variants[v]) \o ScanEntries(ids \ {v})

_check_for_alerts == ScanEntries(Tracked)

(***************************************************************************)
(* Alert-scan harness: the scan body applied to every history of up to     *)
(* MaxAlertHist samples                                                    *)
(***************************************************************************)
AlertSamples ==
    {Sample(0, 100, 2, 20, 40), Sample(10, 100, 2, 20, 40),
     Sample(50, 100, 2, 20, 40), Sample(10, 100, 2, 20, 150)}

ALInit == al_history \in SeqsUpTo(AlertSamples, MaxAlertHist) /\ al_alerts = NoScan

ScanEntry ==
    /\ ~al_alerts.scanned
    /\ al_alerts' = [scanned |-> TRUE, alerts |-> EntryAlerts(1, al_history)]
    /\ UNCHANGED <<al_history, paVars, muVars, trVars, scVars, orchVars, monVars>>

(***************************************************************************)
(* EvolutionMonitor: the loop of start_monitoring                          *)
(***************************************************************************)
BackoffSeconds == 300  \* asyncio.sleep(300) in the except branch
CheckIntervals == {1, 60}   \* check_interval_minutes: a short one and the default

\* _handle_alerts rolling back on every alert
TriggersRollbackAny(alert) == TRUE

\* the two ifs of _handle_alerts (lines 752-754)
TriggersRollback(alert) == alert.severity = "high" /\ alert.type = "performance_drop"

\* _handle_alerts: the variant ids it calls emergency_rollback for, in order
_handle_alerts(alerts) ==
    LET hit == SelectSeq(alerts, TriggersRollback)
    IN  [i \in 1..Len(hit) |-> hit[i].variant_id]

NoTick == [loop |-> 0, after |-> "none", alerts |-> <<>>, rollbacks |-> <<>>, failed |-> FALSE]

NewLoop(check_interval_minutes) ==
    [pc |-> "called", check_interval_minutes |-> check_interval_minutes,
     sleep |-> 0, ticks |-> 0]

\* the except branch: the loop is left for good
AfterErrorExit(loop) == [loop EXCEPT !.pc = "returned", !.ticks = 1 - @]

\* the except branch (lines 704-706): print, then sleep 300 seconds
AfterError(loop) ==
    [loop EXCEPT !.pc = "backoff", !.sleep = BackoffSeconds, !.ticks = 1 - @]

\* the end of the try block (line 702): sleep for the check interval
AfterTick(loop) ==
    [loop EXCEPT !.pc = "sleep", !.sleep = loop.check_interval_minutes * 60,
                 !.ticks = 1 - @]

\* One pass through the loop body (lines 694-706) of loop l.  Nothing in it
\* suspends before the sleep, so it is one step.  failAt = 0: the scan raises;
\* failAt = k in 1..Len(alerts): handling the k-th alert raises, after the
\* k-1 before it were handled; failAt = Len(alerts)+1: nothing raises.
\* `ticks` is the number of passes modulo 2.
Tick(l, failAt) ==
    \E alerts \in {IF failAt = 0 THEN <<>> ELSE _check_for_alerts} :
    \E rollbacks \in {_handle_alerts(SubSeq(alerts, 1, Min(failAt - 1, Len(alerts))))} :
    \E failed \in {failAt <= Len(alerts)} :
        /\ lastTick' = [loop |-> l, after |-> mon[l].pc, alerts |-> alerts,
                        rollbacks |-> rollbacks, failed |-> failed]
        /\ lastRollback' =
              IF rollbacks = <<>> THEN lastRollback
              ELSE [variant_id |-> rollbacks[Len(rollbacks)]]
                       @@ emergency_rollback(rollbacks[Len(rollbacks)])
        /\ mon' = [mon EXCEPT ![l] = IF failed THEN AfterError(@) ELSE AfterTick(@)]
        /\ UNCHANGED <<variants, active_variants, nextVariant, platformSeq, cycle,
                       evolution_results, lastStep, paVars, alVars, muVars, trVars, scVars>>

\* start_monitoring(check_interval_minutes) is called: the coroutine exists,
\* its body has not run yet
StartMonitoring(check_interval_minutes) ==
    /\ CycleIdle
    /\ Len(mon) < MaxLoops
    /\ mon' = Append(mon, NewLoop(check_interval_minutes))
    /\ stop_requested' = FALSE
    /\ UNCHANGED <<monitoring_active, lastTick, orchVars, paVars, alVars, muVars, trVars, scVars>>

\* the coroutine runs from line 691 to its first sleep
MonitorBegin(l) ==
    /\ CycleIdle
    /\ l \in DOMAIN mon
    /\ mon[l].pc = "called"
    /\ monitoring_active' = TRUE
    /\ \E failAt \in 0..(Len(_check_for_alerts) + 1) : Tick(l, failAt)
    /\ UNCHANGED stop_requested

\* a sleep ends, the while condition holds: the next pass
MonitorWake(l) ==
    /\ CycleIdle
    /\ l \in DOMAIN mon
    /\ mon[l].pc \in {"sleep", "backoff"}
    /\ monitoring_active
    /\ \E failAt \in 0..(Len(_check_for_alerts) + 1) : Tick(l, failAt)
    /\ UNCHANGED <<monitoring_active, stop_requested>>

\* a sleep ends, the while condition fails: start_monitoring returns
MonitorReturn(l) ==
    /\ CycleIdle
    /\ l \in DOMAIN mon
    /\ mon[l].pc \in {"sleep", "backoff"}
    /\ ~monitoring_active
    /\ mon' = [mon EXCEPT ![l].pc = "returned"]
    /\ UNCHANGED <<monitoring_active, stop_requested, lastTick, orchVars, paVars, alVars, muVars, trVars, scVars>>

\* stop_monitoring (lines 757-759)
StopMonitoring ==
    /\ CycleIdle
    /\ monitoring_active' = FALSE
    /\ stop_requested' = TRUE
    /\ UNCHANGED <<mon, lastTick, orchVars, paVars, alVars, muVars, trVars, scVars>>

\* the evolution cycle that precedes monitoring: one call for one variant
SeedCycle ==
    /\ mon = <<>>
    /\ cycle.handed = 0
    /\ \E v \in DOMAIN variants : StartCycle(<<v>>)

\* a step of the coroutine of loop l
MonitorStep(l) == MonitorBegin(l) \/ MonitorWake(l) \/ MonitorReturn(l)

MonitorNext ==
    \/ SeedCycle
    \/ CycleStep
    \/ CycleReturn
    \/ \E check_interval_minutes \in CheckIntervals : StartMonitoring(check_interval_minutes)
    \/ \E l \in 1..MaxLoops : MonitorBegin(l)
    \/ \E l \in 1..MaxLoops : MonitorWake(l)
    \/ \E l \in 1..MaxLoops : MonitorReturn(l)
    \/ StopMonitoring

MonIdle ==
    /\ monitoring_active = FALSE
    /\ mon = <<>>
    /\ stop_requested = FALSE
    /\ lastTick = NoTick

(***************************************************************************)
(* TrendData and TrendAnalysisAgent._filter_relevant_trends.  expiry_date  *)
(* is held as a number of days from now (negative: the date has passed),   *)
(* relevance_score in hundredths.                                          *)
(***************************************************************************)
TrendData(trend_id, relevance_score, expiry_date) ==
    [trend_id |-> trend_id, relevance_score |-> relevance_score,
     expiry_date |-> expiry_date]

\* SyntheticDataGenerator.generate_trend_data: four trends, all expiring later
generate_trend_data ==
    <<TrendData("social", 85, 30), TrendData("economic", 78, 45),
      TrendData("cultural", 72, 60), TrendData("seasonal", 90, 90)>>

\* what json.loads makes of the answer of the classification call: a list
\* of trend ids, or an exception (an "Error: ..." text, None, prose)
TrendAnswer(parsed, ids) == [parsed |-> parsed, ids |-> ids]

_filter_relevant_trends(trends, answer) ==
    IF answer.parsed
    THEN LET Named(trend) == trend.trend_id \in answer.ids
         IN  SelectSeq(trends, Named)
    ELSE LET High(trend) == trend.relevance_score > 70
         IN  SelectSeq(trends, High)

(***************************************************************************)
(* Trend harness: the filter applied to a list of up to MaxTrends trends   *)
(* and one answer of the classification call                               *)
(***************************************************************************)
TrendPool ==
    {generate_trend_data[i] : i \in 1..Len(generate_trend_data)}
        \cup {TrendData("lapsed", 90, -1), TrendData("faint", 50, 30)}

TrendAnswers(trends) ==
    {TrendAnswer(TRUE, ids) : ids \in SUBSET {trends[i].trend_id : i \in 1..Len(trends)}}
        \cup {TrendAnswer(FALSE, {})}

NoTrends == [called |-> FALSE, relevant_trends |-> <<>>]

TRIdle == tr_trends = <<>> /\ tr_result = NoTrends

TRInit ==
    /\ tr_trends \in SeqsUpTo(TrendPool, MaxTrends) \cup {generate_trend_data}
    /\ tr_result = NoTrends

\* TrendAnalysisAgent.execute, as far as relevant_trends goes
FilterTrends ==
    /\ ~tr_result.called
    /\ \E answer \in TrendAnswers(tr_trends) :
          tr_result' = [called |-> TRUE,
                        relevant_trends |-> _filter_relevant_trends(tr_trends, answer)]
    /\ UNCHANGED <<tr_trends, scVars, paVars, alVars, muVars, orchVars, monVars>>

(***************************************************************************)
(* _check_for_alerts entry by entry, next to evolution cycles.  Both run   *)
(* as coroutines of one event loop: one runs while the other is suspended  *)
(* at an await that gives up control.                                      *)
(***************************************************************************)
\* the scan with an await that gives up control inside its for loop
ScanSuspendsInLoop == TRUE

\* _check_for_alerts (lines 708-744) has no await: once begun it is never
\* suspended before it returns
ScanSuspends == FALSE

NoScanCall == [pc |-> "idle", registry |-> <<>>, left |-> {}, alerts |-> <<>>, done |-> 0]

SCIdle == scan = NoScanCall

\* a cycle may run on while no scan is in progress or the scan is suspended
CycleMayRun == scan.pc # "scanning" \/ ScanSuspends

\* line 713: iteration over active_variants.items() begins
ScanBegin ==
    /\ CycleIdle
    /\ scan.pc = "idle"
    /\ scan.done < MaxScans
    /\ scan' = [scan EXCEPT !.pc = "scanning", !.registry = active_variants,
                            !.left = Tracked, !.alerts = <<>>]
    /\ UNCHANGED <<paVars, alVars, muVars, trVars, orchVars, monVars>>

\* one pass of the for loop (lines 713-742): the next entry of the live
\* dict; a dict that changed size since the iteration began raises
\* RuntimeError
ScanVisit ==
    /\ CycleIdle
    /\ scan.pc = "scanning"
    /\ scan.left # {}
    /\ scan' = IF Tracked # DOMAIN scan.registry
               THEN [scan EXCEPT !.pc = "raised"]
               ELSE LET v == CHOOSE x \in scan.left : \A y \in scan.left : x <= y
                    IN  [scan EXCEPT !.left = @ \ {v},
                                     !.alerts = @ \o EntryAlerts(v, active_variants[v])]
    /\ UNCHANGED <<paVars, alVars, muVars, trVars, orchVars, monVars>>

\* line 744: return alerts
ScanEnd ==
    /\ CycleIdle
    /\ scan.pc = "scanning"
    /\ scan.left = {}
    /\ scan' = [scan EXCEPT !.pc = "idle", !.done = @ + 1]
    /\ UNCHANGED <<paVars, alVars, muVars, trVars, orchVars, monVars>>

\* start_evolution_cycle([v]) called while the loop may run it
ScanStartCycle(v) ==
    /\ CycleMayRun
    /\ cycle.handed < MaxScans
    /\ StartCycle(<<v>>)

ScanCycleStep == CycleMayRun /\ CycleStep

ScanCycleReturn == CycleMayRun /\ CycleReturn

ScanNext ==
    \/ ScanBegin
    \/ ScanVisit
    \/ ScanEnd
    \/ \E v \in DOMAIN variants : ScanStartCycle(v)
    \/ ScanCycleStep
    \/ ScanCycleReturn

(***************************************************************************)
(* Several start_monitoring calls on one EvolutionMonitor                  *)
(***************************************************************************)
\* start_monitoring called again: nothing in it looks for an earlier loop
StartMonitoringAgain(check_interval_minutes) ==
    /\ CycleIdle
    /\ Len(mon) < MaxStarts
    /\ mon' = Append(mon, NewLoop(check_interval_minutes))
    /\ stop_requested' = FALSE
    /\ UNCHANGED <<monitoring_active, lastTick, orchVars, paVars, alVars, muVars, trVars, scVars>>

LoopsNext ==
    \/ \E check_interval_minutes \in CheckIntervals :
          StartMonitoringAgain(check_interval_minutes)
    \/ \E l \in 1..MaxStarts : MonitorBegin(l)
    \/ \E l \in 1..MaxStarts : MonitorWake(l)
    \/ \E l \in 1..MaxStarts : MonitorReturn(l)
    \/ StopMonitoring

(***************************************************************************)
(* Specifications                                                          *)
(***************************************************************************)
\* orchestrator and monitor constructed, nothing handed to the harnesses
Init == OrchInit /\ PAIdle /\ ALIdle /\ MUIdle /\ TRIdle /\ MonIdle /\ SCIdle

AnalysisInit == PAInit /\ ALIdle /\ MUIdle /\ OrchInit /\ TRIdle /\ MonIdle /\ SCIdle
AnalysisNext == Analyze

AlertInit == ALInit /\ PAIdle /\ MUIdle /\ OrchInit /\ TRIdle /\ MonIdle /\ SCIdle
AlertNext == ScanEntry

\* evolution cycles with a content generator that may fail, no rollback calls
CycleNext ==
    \/ \E list \in InputLists : StartCycle(list)
    \/ CycleStep
    \/ CycleStepFailing
    \/ CycleReturn

\* the first call of start_evolution_cycle
StartFirst(list) ==
    /\ cycle.handed = 0
    /\ StartCycle(list)

OneCycleNext ==
    \/ \E list \in InputLists : StartFirst(list)
    \/ CycleStep
    \/ CycleStepFailing
    \/ CycleReturn

\* start_evolution_cycle([v]) for one existing variant
StartSingle(v) ==
    /\ cycle.handed < MaxRounds
    /\ StartCycle(<<v>>)

\* repeated single-variant cycles: children are handed back in until they
\* get children of their own
LineageNext ==
    \/ \E v \in DOMAIN variants : StartSingle(v)
    \/ CycleStep
    \/ CycleReturn

MutationInit == MUInit /\ PAIdle /\ ALIdle /\ OrchInit /\ TRIdle /\ MonIdle /\ SCIdle
MutationNext == Mutate

TrendInit == TRInit /\ PAIdle /\ ALIdle /\ MUIdle /\ OrchInit /\ MonIdle /\ SCIdle
TrendNext == FilterTrends

\* evolution cycles and direct rollback calls
OrchSpec == Init /\ [][OrchNext]_vars

\* evolution cycles with failing content generation
CycleSpec == Init /\ [][CycleNext]_vars

\* one call of start_evolution_cycle in the life of the orchestrator
OneCycleSpec == Init /\ [][OneCycleNext]_vars

\* evolution cycles over one variant each, deep enough for grandchildren
LineageSpec == Init /\ [][LineageNext]_vars

\* PerformanceAnalysisAgent.execute over single histories
AnalysisSpec == AnalysisInit /\ [][AnalysisNext]_vars

\* the alert scan over single histories
AlertSpec == AlertInit /\ [][AlertNext]_vars

\* AdMutationAgent.execute over single calls
MutationSpec == MutationInit /\ [][MutationNext]_vars

\* TrendAnalysisAgent.execute over single calls
TrendSpec == TrendInit /\ [][TrendNext]_vars

\* start_monitoring and stop_monitoring calls in any order, no variants tracked
LoopsSpec == Init /\ [][LoopsNext]_vars

\* alert scans and single-variant evolution cycles in one event loop
ScanSpec == Init /\ [][ScanNext]_vars

\* one evolution cycle, then the monitor loops with start and stop calls
MonitorSpec == Init /\ [][MonitorNext]_vars

\* the event loop resumes a coroutine whose sleep has ended
FairMonitorSpec ==
    MonitorSpec /\ \A l \in 1..MaxLoops : WF_vars(MonitorStep(l))


(***************************************************************************)
(* Properties                                                              *)
(***************************************************************************)
Children == DOMAIN variants \ ExternalIds

\* the auto-publish condition as the specification words it
PolicyAllows(m) == m.trend_alignment > 70 /\ Len(m.mutation_history) <= 2

\* C1: needs_mutation is true iff the history has at least 3 samples and
\* (performance_score < 0.6 or the ctr of the last sample is below the ctr of
\* the third-from-last); it is false below 3 samples and for 3 identical
\* samples with ctr=0.06, clicks=100, conversions=12.
C1_NeedsMutationIff ==
    pa_result.called =>
        LET h == pa_metrics
            n == Len(h)
        IN  /\ pa_result.needs_mutation <=>
                  (n >= 3 /\ (RatLt(_calculate_performance_score(h), 6, 10)
                              \/ h[n].ctr < h[n - 2].ctr))
            /\ (n < 3 => ~pa_result.needs_mutation)
            /\ \A e \in {20, 80} :
                  h = <<HighSample(e), HighSample(e), HighSample(e)>>
                      => ~pa_result.needs_mutation

C1_Witness ==
    /\ pa_result.called
    /\ pa_result.needs_mutation
    /\ ~RatLt(_calculate_performance_score(pa_metrics), 6, 10)

\* C2 as claimed: a child is published iff trend_alignment > 0.7 and
\* len(mutation_history) <= 2; every child that satisfies both ends its
\* cycle with is_published = true.
C2_PublishedIffPolicy ==
    \A c \in Children : variants[c].is_published <=> PolicyAllows(variants[c])

\* C2 as amended: no child is published unless trend_alignment > 0.7 and
\* len(mutation_history) <= 2 (none with more than 2 entries ever is); exactly
\* the children of an iteration that satisfy both are handed to the publish
\* call, and all of them are published when that call succeeds.
C2_PublishedOnlyByPolicy ==
    /\ \A c \in Children : variants[c].is_published => PolicyAllows(variants[c])
    /\ lastStep.batch = SelectSeq(lastStep.children, LAMBDA c : PolicyAllows(variants[c]))
    /\ (lastStep.publish = "success" =>
            \A c \in SeqToSet(lastStep.batch) : variants[c].is_published)
    /\ (lastStep.batch # <<>> => lastStep.publish # "none")

C2_Witness ==
    /\ lastStep.publish = "success"
    /\ \E c \in Children : variants[c].is_published
    /\ \E c \in Children : Len(variants[c].mutation_history) > 2

\* C3: when the publish call of the auto-publish step fails, every child of
\* that batch remains un-published (is_published = false, no campaign id).
\* (The claim also asks for the failure to be recorded in the cycle result;
\* evolution_results has no field for it.)
C3_FailedPublishLeavesUnpublished ==
    lastStep.publish = "failed" =>
        \A c \in SeqToSet(lastStep.batch) :
            ~variants[c].is_published /\ variants[c].meta_campaign_id = NoCampaign

\* C4: for every variant, a campaign id implies is_published.
C4_CampaignImpliesPublished ==
    \A v \in DOMAIN variants :
        variants[v].meta_campaign_id # NoCampaign => variants[v].is_published

C4_Witness ==
    \E c \in Children :
        variants[c].meta_campaign_id # NoCampaign /\ lastStep.publish = "failed"

RollbackCalled == lastRollback.variant_id # 0

\* C5: emergency_rollback on a root variant or on an id that is not tracked
\* returns success = false with an error, does not raise, and makes no pause
\* or resume call.
C5_RootRollbackFails ==
    (RollbackCalled
     /\ (lastRollback.variant_id \notin Tracked
         \/ variants[lastRollback.variant_id].mutation_history = <<>>))
    => /\ ~lastRollback.result.success
       /\ lastRollback.result.error # ""
       /\ ~lastRollback.result.raised
       /\ lastRollback.calls = <<>>

C5_Witness ==
    /\ RollbackCalled
    /\ lastRollback.variant_id \in Tracked
    /\ variants[lastRollback.variant_id].mutation_history = <<>>
    /\ variants[lastRollback.variant_id].meta_campaign_id # NoCampaign

\* C6: emergency_rollback on a tracked variant with lineage pauses that
\* variant's campaign in every case, parent tracked or not; with the parent
\* (parent_id of the last mutation_history entry) tracked, the parent's
\* campaign is resumed after the pause and the result is success with
\* rolled_back_to = parent id; otherwise the result is a failure.
C6_RollbackAlwaysPauses ==
    (RollbackCalled /\ lastRollback.variant_id \in Tracked
     /\ variants[lastRollback.variant_id].mutation_history # <<>>)
    => LET variant == variants[lastRollback.variant_id]
           parent_id == variant.mutation_history[Len(variant.mutation_history)].parent_id
           calls == lastRollback.calls
       IN  /\ (variant.meta_campaign_id # NoCampaign =>
                  /\ calls # <<>>
                  /\ calls[1] = [op |-> "pause", campaign_id |-> variant.meta_campaign_id])
           /\ (parent_id \in Tracked =>
                  /\ lastRollback.result.success
                  /\ lastRollback.result.rolled_back_to = parent_id
                  /\ (variants[parent_id].meta_campaign_id # NoCampaign =>
                         calls[Len(calls)] =
                            [op |-> "resume",
                             campaign_id |-> variants[parent_id].meta_campaign_id]))
           /\ (parent_id \notin Tracked => ~lastRollback.result.success)

IsDrop(alert) == alert.type = "performance_drop" /\ alert.severity = "high"

\* C7: the scan fires a performance_drop alert of severity high for a history
\* iff it has at least 6 samples and the mean ctr of the last 3 is below 0.8
\* times the mean ctr of the 3 before them; a history of fewer than 6 samples
\* gets no performance_drop alert; the ctr series
\* [0.05,0.05,0.05,0.01,0.01,0.01] fires it.
C7_PerformanceDropIff ==
    al_alerts.scanned =>
        LET h == al_history
            n == Len(h)
            alerts == al_alerts.alerts
            drop == \E i \in 1..Len(alerts) : IsDrop(alerts[i])
        IN  /\ drop <=>
                  (n >= 6 /\ 5 * (h[n].ctr + h[n - 1].ctr + h[n - 2].ctr)
                               < 4 * (h[n - 3].ctr + h[n - 4].ctr + h[n - 5].ctr))
            /\ (n < 6 => \A i \in 1..Len(alerts) : alerts[i].type # "performance_drop")
            /\ ([i \in 1..n |-> h[i].ctr] = <<50, 50, 50, 10, 10, 10>> => drop)

C7_Witness ==
    /\ al_alerts.scanned
    /\ [i \in 1..Len(al_history) |-> al_history[i].ctr] = <<50, 50, 50, 10, 10, 10>>
    /\ \E i \in 1..Len(al_alerts.alerts) : IsDrop(al_alerts.alerts[i])

\* C8: a pass of the monitor loop that reaches its sleep has called
\* emergency_rollback exactly for the variants of its high-severity
\* performance_drop alerts, in alert order, before that sleep; a pass that
\* raised called it for such variants only; a high_cost alert (severity
\* medium) is among the alerts of the pass iff the latest
\* cost_per_acquisition of the entry exceeds 100, and triggers no rollback.
C8_RollbackExactlyForDrops ==
    lastTick.loop # 0 =>
        LET alerts == lastTick.alerts
            drops == SelectSeq(alerts, IsDrop)
        IN  /\ (~lastTick.failed =>
                   /\ lastTick.rollbacks = [i \in 1..Len(drops) |-> drops[i].variant_id]
                   /\ mon[lastTick.loop].pc \in {"sleep", "returned"}
                   /\ \A v \in Tracked :
                         Len(active_variants[v]) >= 2 =>
                            ((\E i \in 1..Len(alerts) :
                                 alerts[i] = Alert("high_cost", v, "medium"))
                             <=> active_variants[v][Len(active_variants[v])]
                                     .cost_per_acquisition > 100))
            /\ \A i \in 1..Len(lastTick.rollbacks) :
                   \E j \in 1..Len(alerts) :
                       IsDrop(alerts[j]) /\ alerts[j].variant_id = lastTick.rollbacks[i]
            /\ \A i \in 1..Len(alerts) :
                   alerts[i].type = "high_cost" => alerts[i].severity = "medium"

C8_Witness ==
    /\ lastTick.loop # 0
    /\ ~lastTick.failed
    /\ Len(lastTick.rollbacks) = 1
    /\ \E i \in 1..Len(lastTick.alerts) : lastTick.alerts[i].type = "high_cost"
    /\ mon[lastTick.loop].pc = "sleep"

\* the position and the pass parity of loop l, also before it is called
LoopPc(l) == IF l \in DOMAIN mon THEN mon[l].pc ELSE "uncalled"
LoopTicks(l) == IF l \in DOMAIN mon THEN mon[l].ticks ELSE 0

\* C9 as claimed: after a pass that raised, the loop waits an interval shorter
\* than the check interval.
C9_BackoffShorter ==
    \A l \in DOMAIN mon :
        mon[l].pc = "backoff" => mon[l].sleep < mon[l].check_interval_minutes * 60

\* C9 as amended: after a pass that raised, the loop waits the fixed back-off
\* of 300 seconds (shorter than the check interval only when that is above 5
\* minutes) and then runs another pass: a failed pass is always followed
\* eventually by a further pass unless monitoring_active is cleared, and the
\* loop is left only when monitoring_active is false, never by an exception.
C9_FailedTickRetried ==
    /\ [](\A l \in DOMAIN mon : mon[l].pc = "backoff" => mon[l].sleep = BackoffSeconds)
    /\ [](lastTick.failed => mon[lastTick.loop].pc \in {"backoff", "returned"})
    /\ [][\A l \in DOMAIN mon :
             (mon[l].pc # "returned" /\ mon'[l].pc = "returned") => ~monitoring_active]_vars
    /\ \A l \in 1..MaxLoops : \A b \in {0, 1} :
          (LoopPc(l) = "backoff" /\ LoopTicks(l) = b)
              ~> (LoopTicks(l) # b \/ ~monitoring_active)

C9_Witness ==
    /\ lastTick.loop # 0
    /\ lastTick.after = "backoff"
    /\ monitoring_active
    /\ mon[lastTick.loop].check_interval_minutes = 1

\* C10: once stop_monitoring has been called (and start_monitoring not called
\* again), no monitor loop starts a further pass, whenever the stop came
\* relative to start_monitoring.
C10_NoTickAfterStop ==
    [][stop_requested => \A l \in DOMAIN mon : mon'[l].ticks = mon[l].ticks]_vars

(***************************************************************************)
(* AdMutationAgent.execute: the children and the parent                    *)
(***************************************************************************)
\* positions of the recommendations for which a child was built, in order:
\* the k-th child returned belongs to the k-th of them
Produced(outcomes) ==
    SelectSeq([i \in 1..Len(outcomes) |-> i],
              LAMBDA i : ~_call_openai(outcomes[i]).is_none)

AllFields == DOMAIN Variant(<<>>, 0, FALSE, NoCampaign)

CopiedFields ==
    {"headline", "body", "cta", "image_url", "aesthetic_score", "ogilvy_score",
     "format_type", "demographic_segment"}

ChildLineage(child, parent_id, parent) ==
    /\ Len(child.mutation_history) = Len(parent.mutation_history) + 1
    /\ SubSeq(child.mutation_history, 1, Len(parent.mutation_history))
          = parent.mutation_history
    /\ child.mutation_history[Len(child.mutation_history)].parent_id = parent_id

\* C11 as stated: a child made for a recommendation with field type f equals
\* its parent in every field except f, and its mutation_history is the
\* parent's followed by exactly one entry whose parent_id is the parent's id.
C11_ChildDiffersOnlyInField ==
    mu_result.called =>
        \A k \in 1..Len(mu_result.mutated_variants) :
            LET child == mu_result.mutated_variants[k].variant
                rec == mu_input.mutation_recommendations[Produced(mu_input.outcomes)[k]]
            IN  /\ \A fld \in AllFields \ {rec.type, "mutation_history"} :
                       child[fld] = mu_input.original[fld]
                /\ ChildLineage(child, mu_input.original_id, mu_input.original)

\* C11 as amended: the child copies the parent's headline, body and cta other
\* than f, image_url, aesthetic_score, ogilvy_score, format_type and
\* demographic_segment; f holds the returned text without surrounding
\* whitespace and quotes; emotional_impact is the parent's times 1.1,
\* generation_strategy is "mutation_<strategy>", performance_score is 0,
\* trend_alignment 0.8, swipe_status "pending", is_published false and the
\* campaign id None, whatever the parent's values; the id is fresh; the
\* mutation_history is the parent's followed by exactly one entry whose
\* parent_id is the parent's id.
C11_ChildFrame ==
    mu_result.called =>
        \A k \in 1..Len(mu_result.mutated_variants) :
            LET child == mu_result.mutated_variants[k].variant
                i == Produced(mu_input.outcomes)[k]
                rec == mu_input.mutation_recommendations[i]
                parent == mu_input.original
            IN  /\ \A fld \in CopiedFields \ {rec.type} : child[fld] = parent[fld]
                /\ child[rec.type] = Strip(_call_openai(mu_input.outcomes[i]).content)
                /\ child.emotional_impact
                      = Impact(parent.emotional_impact.base,
                               parent.emotional_impact.boosts + 1)
                /\ child.generation_strategy = MutationStrategyName(rec.strategy)
                /\ child.performance_score = 0
                /\ child.trend_alignment = 80
                /\ child.swipe_status = "pending"
                /\ ~child.is_published
                /\ child.meta_campaign_id = NoCampaign
                /\ mu_result.mutated_variants[k].id = FirstChildId + k - 1
                /\ mu_result.mutated_variants[k].id # mu_input.original_id
                /\ ChildLineage(child, mu_input.original_id, mu_input.original)
                /\ child.mutation_history[Len(child.mutation_history)]
                      = MutationEntry(mu_input.original_id, rec.type, rec.strategy)

\* a published parent with a lineage got a cta child made from a quoted answer
C11_Witness ==
    /\ mu_result.called
    /\ mu_input.original.is_published
    /\ mu_input.original.mutation_history # <<>>
    /\ \E k \in 1..Len(mu_result.mutated_variants) :
          /\ mu_input.mutation_recommendations[Produced(mu_input.outcomes)[k]].type = "cta"
          /\ mu_input.outcomes[Produced(mu_input.outcomes)[k]].content = "\"Act now\""
          /\ mu_result.mutated_variants[k].variant.cta = "Act now"
          /\ mu_result.mutated_variants[k].variant.headline = "Original headline"

\* C12: when the generation call of a recommendation fails (error status,
\* timeout or other exception, no API key, answer without content) no child
\* is made for it and the other recommendations are still processed: the
\* children returned are as many as the recommendations whose call succeeded.
C12_ChildPerSucceededCall ==
    mu_result.called =>
        Len(mu_result.mutated_variants)
            = Cardinality({i \in 1..Len(mu_input.outcomes) :
                              GenerationSucceeded(mu_input.outcomes[i])})

\* C13: AdMutationAgent.execute never modifies the parent: after the call,
\* whether the generation calls succeeded or failed, every field of the
\* parent object (its mutation_history, is_published and campaign id
\* included) has the value it had before the call.
C13_ParentUnchanged ==
    mu_result.called =>
        /\ DOMAIN mu_result.original = AllFields
        /\ \A fld \in AllFields : mu_result.original[fld] = mu_input.original[fld]

\* a published parent with a lineage, one call answered and one failed
C13_Witness ==
    /\ mu_result.called
    /\ mu_input.original.is_published
    /\ mu_input.original.meta_campaign_id # NoCampaign
    /\ mu_input.original.mutation_history # <<>>
    /\ Len(mu_result.mutated_variants) >= 1
    /\ \E i, j \in 1..Len(mu_input.outcomes) :
          /\ GenerationSucceeded(mu_input.outcomes[i])
          /\ mu_input.outcomes[j].kind \in {"null", "timeout"}

(***************************************************************************)
(* Lineage                                                                 *)
(***************************************************************************)
HasParent(v) == variants[v].mutation_history # <<>>

ParentOf(v) ==
    variants[v].mutation_history[Len(variants[v].mutation_history)].parent_id

\* the variant reached from v by following parent ids through the registry
\* for at most n steps
RECURSIVE Ancestor(_, _)
Ancestor(v, n) ==
    IF n = 0 \/ ~HasParent(v) \/ ParentOf(v) \notin Tracked THEN v
    ELSE Ancestor(ParentOf(v), n - 1)

Generations == Cardinality(DOMAIN variants)

\* C14 as stated: lineage is a tree in every registry state: every tracked
\* variant with a non-empty mutation_history has one immediate parent, the
\* parent_id of its last entry, known to the registry; its mutation_history
\* is that parent's plus one entry; following parent ids from any tracked
\* variant ends at a root.
C14_LineageTree ==
    \A v \in Tracked :
        /\ v \in DOMAIN variants
        /\ HasParent(v) =>
              /\ ParentOf(v) \in Tracked
              /\ ChildLineage(variants[v], ParentOf(v), variants[ParentOf(v)])
        /\ ~HasParent(Ancestor(v, Generations))

\* C14 as amended: variant ids are unique (a new variant never takes an id in
\* use); every variant made by the mutation agent is tracked, has exactly one
\* immediate parent, the parent_id of its last entry, which is tracked and was
\* created before it; its mutation_history is that parent's plus one entry;
\* following parent ids from any tracked variant ends, without a cycle, at a
\* variant that was handed to start_evolution_cycle from outside.  That
\* variant is a root only if it was handed in with an empty history: the
\* orchestrator tracks a variant that arrives with a history made elsewhere
\* although it does not know its parent.
C14_ChildLineage ==
    /\ [](\A v \in DOMAIN variants \ ExternalIds :
             /\ v \in Tracked
             /\ HasParent(v)
             /\ ParentOf(v) \in Tracked
             /\ ParentOf(v) < v
             /\ ChildLineage(variants[v], ParentOf(v), variants[ParentOf(v)]))
    /\ [](\A v \in Tracked :
             /\ v \in DOMAIN variants
             /\ Ancestor(v, Generations) \in ExternalIds
             /\ HasParent(Ancestor(v, Generations))
                   => ParentOf(Ancestor(v, Generations)) \notin Tracked)
    /\ [][\A v \in DOMAIN variants' \ DOMAIN variants :
              v \notin Tracked /\ v \notin ExternalIds]_vars
    /\ [][\A v \in DOMAIN variants :
              v \in DOMAIN variants'
              /\ variants'[v].mutation_history = variants[v].mutation_history]_vars

\* a tracked variant whose parent is a child of this orchestrator
C14_Witness ==
    \E v \in Tracked : HasParent(v) /\ ParentOf(v) >= FirstChildId /\ ParentOf(v) \in Tracked

(***************************************************************************)
(* The registry                                                            *)
(***************************************************************************)
IsPrefix(s, u) == Len(s) <= Len(u) /\ SubSeq(u, 1, Len(s)) = s

\* C15: the registry only grows: over evolution cycles and rollback calls no
\* tracked entry is removed, and the performance_history of a tracked variant
\* at any time is a prefix of its history at any later time (samples are only
\* appended, never reordered, replaced or bootstrapped again).
C15_RegistryGrows ==
    [][\A v \in Tracked :
          /\ v \in DOMAIN active_variants'
          /\ IsPrefix(active_variants[v], active_variants'[v])]_vars

\* a bootstrapped history that has since been extended with a platform sample
C15_Witness ==
    \E v \in Tracked :
        /\ Len(active_variants[v]) > Days
        /\ SubSeq(active_variants[v], 1, Days) \in SyntheticSeries
        /\ active_variants[v][Days + 1] \in RealSamples

ChildrenOfCycle == cycle.first_child..(nextVariant - 1)
PublishedOfCycle == {c \in ChildrenOfCycle : variants[c].is_published}

\* the count the returned dict holds under `key`, -1 when it has no such key
Reported(key) ==
    IF key \in DOMAIN evolution_results THEN evolution_results[key] ELSE -1

\* C17: the dict returned by start_evolution_cycle reports the number of
\* variants processed, of children created, of children auto-published and
\* of failures, each equal to what happened in the cycle.
C17_SummaryCounts ==
    (CycleIdle /\ cycle.given > 0) =>
        /\ Reported("variants_processed") = cycle.given
        /\ Reported("mutations_created") = Cardinality(ChildrenOfCycle)
        /\ Reported("auto_published") = Cardinality(PublishedOfCycle)
        /\ Reported("failures") = cycle.failures

(***************************************************************************)
(* PerformanceAnalysisAgent.execute: the analysis and the recommendations  *)
(***************************************************************************)
Recommends(type, strategy) ==
    \E i \in 1..Len(pa_result.mutation_recommendations) :
        pa_result.mutation_recommendations[i] = [type |-> type, strategy |-> strategy]

LatestCtr == pa_metrics[Len(pa_metrics)].ctr

\* C18: on an empty history execute returns the explicit no-data analysis
\* (the error analysis and the "Insufficient data" opportunity), with
\* needs_mutation false and performance_score 0; no step of it indexes the
\* empty history.
C18_EmptyHistory ==
    (pa_result.called /\ pa_metrics = <<>>) =>
        /\ pa_result.performance_analysis = [error |-> "No metrics available"]
        /\ pa_result.optimization_opportunities = <<"Insufficient data for analysis">>
        /\ ~pa_result.needs_mutation
        /\ pa_result.performance_score.num = 0

C18_Witness == pa_result.called /\ pa_metrics = <<>>

\* C19 as stated: for a non-empty history the recommendations include
\* {headline, increase_urgency} exactly if the ctr of the latest sample is
\* below 0.02.
C19_HeadlineIffLatestCtrLow ==
    (pa_result.called /\ pa_metrics # <<>>) =>
        (Recommends("headline", "increase_urgency") <=> LatestCtr < 20)

\* C19 as amended: for a non-empty history the recommendations include
\* {headline, increase_urgency} exactly if the mean ctr over the whole history
\* is below 0.02; the ctr of the latest sample decides only the "Low CTR"
\* entry of optimization_opportunities.
C19_HeadlineIffMeanCtrLow ==
    (pa_result.called /\ pa_metrics # <<>>) =>
        /\ Recommends("headline", "increase_urgency")
              <=> SumCtr(pa_metrics) < 20 * Len(pa_metrics)
        /\ (\E i \in 1..Len(pa_result.optimization_opportunities) :
               pa_result.optimization_opportunities[i]
                   = "Low CTR - consider more compelling headlines")
              <=> LatestCtr < 20

\* the latest ctr is below 0.02, the mean is not: no headline recommendation
C19_Witness ==
    /\ pa_result.called
    /\ pa_metrics # <<>>
    /\ LatestCtr < 20
    /\ SumCtr(pa_metrics) >= 20 * Len(pa_metrics)
    /\ ~Recommends("headline", "increase_urgency")

\* the decline test of _needs_mutation: at least 3 samples, ctr(last) below
\* ctr(third from last)
RecentlyDeclining ==
    /\ Len(pa_metrics) >= 3
    /\ LatestCtr < pa_metrics[Len(pa_metrics) - 2].ctr

\* C20 as stated: whenever the ctr is declining in the sense of
\* _needs_mutation the recommendations include {body, refresh_messaging};
\* the ctr history 0.010, 0.009, 0.008 gives needs_mutation and that
\* recommendation.
C20_BodyWhenRecentlyDeclining ==
    pa_result.called =>
        /\ RecentlyDeclining => Recommends("body", "refresh_messaging")
        /\ pa_metrics = FallingHistory =>
              pa_result.needs_mutation /\ Recommends("body", "refresh_messaging")

\* C20 as amended: for a non-empty history the recommendations include
\* {body, refresh_messaging} exactly if the ctr of the last sample is not
\* above the ctr of the first sample of the whole history.  For a history of
\* exactly 3 samples that covers the decline test of _needs_mutation; a
\* longer history can decline over its last three samples and get no body
\* recommendation.  The ctr history 0.010, 0.009, 0.008 gives needs_mutation
\* and the recommendation.
C20_BodyIffNotAboveFirst ==
    pa_result.called =>
        /\ pa_metrics # <<>> =>
              (Recommends("body", "refresh_messaging") <=> LatestCtr <= pa_metrics[1].ctr)
        /\ pa_metrics = <<>> => ~Recommends("body", "refresh_messaging")
        /\ (RecentlyDeclining /\ Len(pa_metrics) = 3) =>
              Recommends("body", "refresh_messaging")
        /\ pa_metrics = FallingHistory =>
              pa_result.needs_mutation /\ Recommends("body", "refresh_messaging")

\* a history declining over its last three samples but above its first one:
\* needs_mutation without a body recommendation
C20_Witness ==
    /\ pa_result.called
    /\ RecentlyDeclining
    /\ LatestCtr > pa_metrics[1].ctr
    /\ pa_result.needs_mutation
    /\ ~Recommends("body", "refresh_messaging")

(***************************************************************************)
(* Trend filtering                                                         *)
(***************************************************************************)
\* the expiry date of the trend lies before now
Expired(trend) == trend.expiry_date < 0

\* C21: relevant_trends never holds a trend whose expiry date has passed
C21_NoExpiredRelevant ==
    tr_result.called =>
        \A i \in 1..Len(tr_result.relevant_trends) :
            ~Expired(tr_result.relevant_trends[i])

(***************************************************************************)
(* The performance score                                                   *)
(***************************************************************************)
\* sample fields are counts and rates, none negative
NonNegative(m) ==
    m.ctr >= 0 /\ m.clicks >= 0 /\ m.conversions >= 0 /\ m.engagement_rate >= 0

\* the three components of the score of sample m as fractions num/den:
\* min(ctr/0.05, 1), min((conversions/clicks)/0.10, 1), min(er/0.08, 1),
\* the conversion rate of a sample without clicks being conversions/1
CtrComponent(m) == [num |-> Min(m.ctr, 50), den |-> 50]
ConversionComponent(m) ==
    [num |-> Min(10 * m.conversions, Max(m.clicks, 1)), den |-> Max(m.clicks, 1)]
EngagementComponent(m) == [num |-> Min(m.engagement_rate, 80), den |-> 80]

InUnit(q) == q.den > 0 /\ 0 <= q.num /\ q.num <= q.den

\* C22: the score of a non-empty history is 0.4*min(ctr/0.05, 1)
\* + 0.4*min((conversions/clicks)/0.10, 1) + 0.2*min(engagement_rate/0.08, 1)
\* on the latest sample (clicks counted as 1 when there are none); each
\* component lies in [0,1] and so does the score.
C22_ScoreFormula ==
    (pa_result.called /\ pa_metrics # <<>>) =>
        LET latest == pa_metrics[Len(pa_metrics)]
            c == CtrComponent(latest)
            v == ConversionComponent(latest)
            e == EngagementComponent(latest)
            score == pa_result.performance_score
        IN  /\ NonNegative(latest)
            /\ InUnit(c) /\ InUnit(v) /\ InUnit(e)
            /\ InUnit(score)
            \* score = (4*c + 4*v + 2*e) / 10, in the score's own unit of
            \* 1/(10000*max(clicks,1)) and with c and e in units of 1/400
            /\ score.den = 10000 * v.den
            /\ 2 * score.num = 5 * (4 * 8 * c.num * v.den + 4 * 400 * v.num
                                     + 2 * 5 * e.num * v.den)

\* a score was computed whose ctr component is capped at 1 and whose other
\* two components are not
C22_Witness ==
    /\ pa_result.called /\ pa_metrics # <<>>
    /\ pa_metrics[Len(pa_metrics)].ctr > 50
    /\ pa_metrics[Len(pa_metrics)].conversions = 2
    /\ pa_metrics[Len(pa_metrics)].engagement_rate = 20

(***************************************************************************)
(* start_evolution_cycle: registration of the children                     *)
(***************************************************************************)
\* a loop iteration of a cycle has been completed by this step
IterationDone ==
    /\ cycle.pc = "running" /\ cycle.queue # <<>>
    /\ cycle'.pc = "running" /\ cycle'.queue = Tail(cycle.queue)

\* C23: an iteration for a variant that needs mutation registers every child
\* the mutation agent returned (one per recommendation when generation
\* answers) under an id that no variant and no entry had before, with an
\* empty performance_history; the entries of all other variants stay as they
\* were, and mutations_created grows by the number of children registered.
\* An iteration for a variant that needs none registers nothing.
C23_ChildrenRegistered ==
    [][IterationDone =>
          LET v == Head(cycle.queue)
              children == lastStep'.children
              ids == SeqToSet(children)
          IN  /\ lastStep'.variant = v
              /\ Len(children) = IF lastStep'.needs_mutation
                                  THEN lastStep'.recommendations ELSE 0
              /\ Cardinality(ids) = Len(children)
              /\ \A c \in ids :
                    /\ c \notin DOMAIN variants /\ c \notin Tracked
                    /\ c \in DOMAIN variants'
                    /\ c \in DOMAIN active_variants'
                    /\ active_variants'[c] = <<>>
              /\ DOMAIN active_variants' = Tracked \cup {v} \cup ids
              /\ \A c \in Tracked \ {v} : active_variants'[c] = active_variants[c]
              /\ evolution_results'.mutations_created
                    = evolution_results.mutations_created + Len(children)]_vars

\* an iteration has just registered two children next to at least three
\* entries that were there before
C23_Witness ==
    /\ cycle.pc = "running"
    /\ Len(lastStep.children) >= 2
    /\ \A i \in 1..Len(lastStep.children) :
          /\ lastStep.children[i] \in Tracked
          /\ active_variants[lastStep.children[i]] = <<>>
    /\ Cardinality(Tracked) >= 5

(***************************************************************************)
(* emotional_impact along mutation chains                                  *)
(***************************************************************************)
RECURSIVE Pow(_, _)
Pow(b, n) == IF n = 0 THEN 1 ELSE b * Pow(b, n - 1)

\* base * 1.1^boosts <= 1.0, base in thousandths
ImpactAtMostOne(impact) ==
    impact.base * Pow(11, impact.boosts) <= 1000 * Pow(10, impact.boosts)

\* C24: every child has emotional_impact = min(parent.emotional_impact * 1.1,
\* 1.0): the parent's times 1.1 where that is at most 1.0 and 1.0 otherwise,
\* so that no child has an emotional_impact above 1.0.
C24_ImpactCapped ==
    mu_result.called =>
        \A k \in 1..Len(mu_result.mutated_variants) :
            LET child == mu_result.mutated_variants[k].variant
                parent == mu_input.original
                boosted == Impact(parent.emotional_impact.base,
                                  parent.emotional_impact.boosts + 1)
            IN  /\ child.emotional_impact
                      = IF ImpactAtMostOne(boosted) THEN boosted ELSE Impact(1000, 0)
                /\ ImpactAtMostOne(child.emotional_impact)

(***************************************************************************)
(* needs_mutation and the recommendations                                  *)
(***************************************************************************)
\* C25 as stated: whenever execute reports needs_mutation, its list of
\* mutation_recommendations for the same history is not empty.
C25_NeedsMutationHasRecommendations ==
    (pa_result.called /\ pa_result.needs_mutation) =>
        pa_result.mutation_recommendations # <<>>

\* C25 as amended: when execute reports needs_mutation, the recommendations
\* are non-empty exactly if the mean ctr of the whole history is below 0.02,
\* or its mean conversion rate is below 0.05, or its last ctr is not above
\* its first; otherwise the list is empty, and the mutation agent run with
\* it returns no child.
C25_RecommendationsWhenNeeded ==
    (pa_result.called /\ pa_result.needs_mutation) =>
        /\ pa_result.mutation_recommendations # <<>>
              <=> \/ SumCtr(pa_metrics) < 20 * Len(pa_metrics)
                  \/ SumConversionRate(pa_metrics) < 50 * Len(pa_metrics)
                  \/ LatestCtr <= pa_metrics[1].ctr
        /\ pa_result.mutation_recommendations = <<>> =>
              MutationExecute(1, ExternalVariant(1, FALSE),
                              pa_result.mutation_recommendations, <<>>,
                              FirstChildId).mutated_variants = <<>>

\* a history that needs mutation and gets no recommendation
C25_Witness ==
    /\ pa_result.called
    /\ pa_result.needs_mutation
    /\ pa_result.mutation_recommendations = <<>>

(***************************************************************************)
(* emergency_rollback: what it leaves alone                                *)
(***************************************************************************)
\* this step is a call of emergency_rollback outside a cycle
RollbackStep ==
    /\ CycleIdle /\ cycle' = cycle
    /\ lastRollback'.variant_id # 0
    /\ lastRollback' # lastRollback

\* C26: emergency_rollback changes no orchestrator state: the registry, every
\* variant's fields and every performance_history are the same after the
\* call as before; so the same call made again, by a caller or by the next
\* monitor tick over the unchanged histories, returns the same result and
\* makes the same platform calls.
C26_RollbackChangesNothing ==
    [][RollbackStep =>
          /\ variants' = variants
          /\ active_variants' = active_variants
          /\ nextVariant' = nextVariant
          /\ evolution_results' = evolution_results
          /\ lastRollback' = [variant_id |-> lastRollback'.variant_id]
                                @@ emergency_rollback(lastRollback'.variant_id)
          /\ \A variant_id \in DOMAIN variants \cup {9} :
                emergency_rollback(variant_id)' = emergency_rollback(variant_id)]_vars

\* a rollback has paused a published child and resumed its parent, and the
\* child is still tracked, published and bound to its campaign
C26_Witness ==
    /\ CycleIdle
    /\ RollbackCalled
    /\ lastRollback.result.success
    /\ Len(lastRollback.calls) = 2
    /\ lastRollback.variant_id \in Tracked
    /\ variants[lastRollback.variant_id].is_published
    /\ variants[lastRollback.variant_id].meta_campaign_id # NoCampaign

(***************************************************************************)
(* Campaign ids of the tracked variants                                    *)
(***************************************************************************)
\* C27: no two distinct tracked variants hold the same platform campaign id,
\* so the campaign a rollback pauses belongs to the rolled-back variant alone.
C27_CampaignIdsDistinct ==
    /\ \A u, v \in Tracked :
          (u # v /\ variants[u].meta_campaign_id # NoCampaign) =>
              variants[u].meta_campaign_id # variants[v].meta_campaign_id
    /\ \A i \in 1..Len(lastRollback.calls) :
          lastRollback.calls[i].op = "pause" =>
              \A u \in Tracked \ {lastRollback.variant_id} :
                  variants[u].meta_campaign_id # lastRollback.calls[i].campaign_id

(***************************************************************************)
(* start_evolution_cycle: the loop over the input list                     *)
(***************************************************************************)
\* C28: a cycle analyses exactly the variants of its input list, in list
\* order and one per iteration; the children it registers are never in the
\* list of the same cycle.  Every step of a started cycle is an iteration
\* that shortens the remaining list by its head, or the return once the list
\* is used up; so a cycle over n variants makes n analyses and then returns,
\* provided each collaborator call of an iteration returns.
C28_CycleOverInputList ==
    /\ [][(cycle.pc = "running" /\ cycle.queue # <<>>) =>
              /\ lastStep'.variant = Head(cycle.queue)
              /\ cycle'.pc = "running"
              /\ cycle'.queue = Tail(cycle.queue)
              /\ cycle'.given = cycle.given
              /\ evolution_results'.variants_processed
                    = evolution_results.variants_processed + 1]_vars
    /\ [](cycle.pc = "running" =>
             /\ SeqToSet(cycle.queue) \cap ChildrenOfCycle = {}
             /\ lastStep.variant \notin ChildrenOfCycle
             /\ evolution_results.variants_processed + Len(cycle.queue) = cycle.given)
    /\ [][(cycle.pc = "running" /\ cycle.queue = <<>>) =>
              /\ cycle'.pc = "idle"
              /\ evolution_results' = evolution_results
              /\ evolution_results.variants_processed = cycle.given]_vars

\* a cycle over two variants is about to analyse the second, after the first
\* got children
C28_Witness ==
    /\ cycle.pc = "running"
    /\ cycle.given = 2
    /\ Len(cycle.queue) = 1
    /\ ChildrenOfCycle # {}

Ticking(l) == mon[l].pc \in {"sleep", "backoff"} /\ monitoring_active

\* C30: at most one monitoring loop of the monitor is executing ticks at any
\* time, whatever the order of the start_monitoring and stop_monitoring calls.
C30_AtMostOneLoopTicking ==
    \A l1, l2 \in DOMAIN mon : (Ticking(l1) /\ Ticking(l2)) => l1 = l2

====
